---------------------------- MODULE Spec2Model ----------------------------
(***************************************************************************)
(* A model of src/src/eda_template.py: the FRED fetcher, the summarizer,   *)
(* the three plot helpers and the run_quick_eda workflow.                  *)
(*                                                                         *)
(* A DataFrame is a record [index, columns, val]: index is the sequence of *)
(* dates (integers, increasing), columns the sequence of column labels and *)
(* val[c][d] the cell of column c at date d.  A cell is a rational <<n,d>> *)
(* in lowest terms (an observation v is <<v,1>>) or the marker NaN.        *)
(***************************************************************************)
EXTENDS Integers, Sequences, FiniteSets, TLC

VARIABLES
    pc,         \* position of the function under study
    today,      \* the clock's date, datetime.today()
    series,     \* fetch_fred_series: the mapping, as its items() in insertion order
    start,      \* fetch_fred_series: the argument `start`
    end,        \* fetch_fred_series: the argument `end` (None or a date)
    frames,     \* fetch_fred_series: the list `frames`
    sources,    \* what web.DataReader returned, request by request
    requests,   \* the identifiers passed to web.DataReader, in call order
    df,         \* the merged table (fetch's return value; input of the helpers)
    columns,    \* plot_distribution: the `columns` argument
    ret,        \* the value returned by the latest helper call
    calls,      \* the number of helper calls made
    monthly,    \* plot_correlation_heatmap: the local `monthly`
    files,      \* run_quick_eda: the state of each output path
    log,        \* run_quick_eda: the steps started, in order
    printed     \* run_quick_eda: whether the completion message was printed

vars == <<pc, today, series, start, end, frames, sources, requests, df,
          columns, ret, calls, monthly, files, log, printed>>

fetchArgs == <<today, series, start>>
fetchVars == <<end, frames, sources, requests>>
helperVars == <<columns, ret, calls, monthly>>
runVars == <<files, log, printed>>

---------------------------------------------------------------------------
(* Bounds of the model *)

\* fetch: the dates are 1..MaxDate
MaxDate == 2
\* summarize: tables have at most MaxRows rows
MaxRows == 3
\* plot_distribution: at most MaxSel columns are selected
MaxSel == 2
\* plot_correlation_heatmap: tables are indexed by the days 1..NumDays
NumDays == 4
\* helpers called in any order: at most MaxCalls calls
MaxCalls == 3

Labels == {"a", "b"}
FredIds == {"ID1", "ID2"}
\* the observations a provider series may hold
Obs == {1, 2}

---------------------------------------------------------------------------
(* Values: rationals and NaN *)

NaN == <<>>
None == <<>>

IsNa(x) == x = NaN

Abs(n) == IF n < 0 THEN -n ELSE n

RECURSIVE Gcd(_, _)
Gcd(a, b) == IF b = 0 THEN a ELSE Gcd(b, a % b)

\* the float n/d, as a rational in lowest terms; x/0 is NaN (0/0) 
Div(n, d) ==
    IF d = 0 THEN NaN
    ELSE LET g == Gcd(Abs(n), Abs(d))
             s == IF d < 0 THEN -1 ELSE 1
         IN  <<(s * n) \div g, (s * d) \div g>>

Num(v) == <<v, 1>>

RLess(x, y) == x[1] * y[2] < y[1] * x[2]

RAdd(x, y) == Div(x[1] * y[2] + y[1] * x[2], x[2] * y[2])
RSub(x, y) == Div(x[1] * y[2] - y[1] * x[2], x[2] * y[2])
RMul(x, y) == Div(x[1] * y[1], x[2] * y[2])

\* the sum of a sequence of rationals
RECURSIVE RSum(_)
RSum(s) == IF s = <<>> THEN Num(0) ELSE RAdd(Head(s), RSum(Tail(s)))

\* the mean of a sequence of rationals; NaN for the empty sequence
RMean(s) ==
    LET t == RSum(s) IN Div(t[1], t[2] * Len(s))

RECURSIVE SortedSeq(_)
SortedSeq(S) ==
    IF S = {} THEN <<>>
    ELSE LET m == CHOOSE x \in S : \A y \in S : x <= y
         IN  <<m>> \o SortedSeq(S \ {m})

Range(s) == {s[i] : i \in 1..Len(s)}

---------------------------------------------------------------------------
(* DataFrames *)

NoTable == [index |-> <<>>, columns |-> <<>>, val |-> <<>>]

Frame(idx, cols, f) == [index |-> idx, columns |-> cols, val |-> f]

\* every table over the dates D (increasing), the columns cols and cells in V
TablesOver(D, cols, V) ==
    {Frame(SortedSeq(D), cols, f) : f \in [Range(cols) -> [D -> V]]}

\* df[col] as the sequence of its cells in index order
Column(t, c) == [i \in 1..Len(t.index) |-> t.val[c][t.index[i]]]

\* Series.dropna()
DropNa(s) == SelectSeq(s, LAMBDA x : ~IsNa(x))

---------------------------------------------------------------------------
(* fetch_fred_series *)

Cells == {Num(v) : v \in Obs} \cup {NaN}

\* what web.DataReader(fred_id, "fred", start=lo, end=hi) can return: a frame
\* indexed by any dates of lo..hi, with the single column named fred_id
ProviderFrames(fred_id, lo, hi) ==
    UNION {TablesOver(D, <<fred_id>>, Cells) : D \in SUBSET (lo..hi)}

\* dict.items() of every mapping over Labels: the keys are distinct
RECURSIVE ItemsOver(_)
ItemsOver(L) ==
    {<<>>} \cup
    UNION {{<<<<l, i>>>> \o rest : rest \in ItemsOver(L \ {l})} :
           <<l, i>> \in L \X FredIds}

Mappings == ItemsOver(Labels)

\* DataFrame.rename(columns={old: new})
Rename(ts, old, new) ==
    LET ren(c) == IF c = old THEN new ELSE c
        cols   == [i \in 1..Len(ts.columns) |-> ren(ts.columns[i])]
    IN  Frame(ts.index, cols,
              [c \in Range(cols) |->
                  ts.val[CHOOSE o \in Range(ts.columns) : ren(o) = c]])

RECURSIVE ConcatColumns(_)
ConcatColumns(fs) ==
    IF fs = <<>> THEN <<>> ELSE Head(fs).columns \o ConcatColumns(Tail(fs))

\* a fill value in place of the marker (fillna(0))
OuterCellFilled(f, c, d) == IF d \in Range(f.index) THEN f.val[c][d] ELSE Num(0)

\* the cell of the outer join: the frame's own cell where it has the date
OuterCell(f, c, d) == IF d \in Range(f.index) THEN f.val[c][d] ELSE NaN

\* an inner join: the dates every frame has
JoinIndexInner(fs) ==
    SortedSeq({d \in 1..MaxDate : \A i \in 1..Len(fs) : d \in Range(fs[i].index)})

\* the index of the joined frames: the union of their dates, in date order
JoinIndex(fs) == SortedSeq(UNION {Range(fs[i].index) : i \in 1..Len(fs)})

\* pd.concat(frames, axis=1) of a non-empty list
Concat(fs) ==
    LET idx  == JoinIndex(fs)
        cols == ConcatColumns(fs)
        own(c) == fs[CHOOSE i \in 1..Len(fs) : c \in Range(fs[i].columns)]
    IN  Frame(idx, cols,
              [c \in Range(cols) |-> [d \in Range(idx) |-> OuterCell(own(c), c, d)]])

NoHelper == /\ columns = None /\ ret = <<>> /\ calls = 0 /\ monthly = NoTable
NoRun == /\ files = <<>> /\ log = <<>> /\ printed = FALSE
NoFetch == /\ today = 1 /\ series = <<>> /\ start = 1 /\ end = None
           /\ frames = <<>> /\ sources = <<>> /\ requests = <<>>

InitFetch ==
    /\ pc = "fetch_begin"
    /\ today \in 1..MaxDate
    /\ series \in Mappings
    /\ start \in 1..MaxDate
    /\ end \in {None} \cup {<<d>> : d \in 1..MaxDate}
    /\ frames = <<>> /\ sources = <<>> /\ requests = <<>>
    /\ df = NoTable
    /\ NoHelper /\ NoRun

\* lines 34-37: `end` defaults to today's date
FetchBegin ==
    /\ pc = "fetch_begin"
    /\ end' = IF end = None THEN <<today>> ELSE end
    /\ pc' = "fetch_loop"
    /\ UNCHANGED <<fetchArgs, frames, sources, requests, df, helperVars, runVars>>

\* lines 38-41, the request succeeding (a range that ends before it starts is
\* refused by the reader)
FetchRequestOk ==
    /\ pc = "fetch_loop"
    /\ Len(requests) < Len(series)
    /\ start <= end[1]
    /\ LET label   == series[Len(requests) + 1][1]
           fred_id == series[Len(requests) + 1][2]
       IN  \E ts \in ProviderFrames(fred_id, start, end[1]) :
              /\ requests' = Append(requests, fred_id)
              /\ sources' = Append(sources, ts)
              /\ frames' = Append(frames, Rename(ts, fred_id, label))
    /\ UNCHANGED <<pc, fetchArgs, end, df, helperVars, runVars>>

\* a partial-result fallback: the failed series is skipped (except: continue)
FetchRequestFailSkipped ==
    /\ pc = "fetch_loop"
    /\ Len(requests) < Len(series)
    /\ requests' = Append(requests, series[Len(requests) + 1][2])
    /\ UNCHANGED <<pc, fetchArgs, end, frames, sources, df, helperVars, runVars>>

\* line 39, web.DataReader raising: the exception leaves the function
FetchRequestFail ==
    /\ pc = "fetch_loop"
    /\ Len(requests) < Len(series)
    /\ requests' = Append(requests, series[Len(requests) + 1][2])
    /\ pc' = "raised_provider"
    /\ UNCHANGED <<fetchArgs, end, frames, sources, df, helperVars, runVars>>

\* lines 43-44; pd.concat of an empty list raises ValueError
FetchConcat ==
    /\ pc = "fetch_loop"
    /\ Len(requests) = Len(series)
    /\ IF frames = <<>>
       THEN pc' = "raised_concat" /\ df' = df
       ELSE pc' = "returned" /\ df' = Concat(frames)
    /\ UNCHANGED <<fetchArgs, fetchVars, helperVars, runVars>>

NextFetch == FetchBegin \/ FetchRequestOk \/ FetchRequestFail \/ FetchConcat

SpecFetch == InitFetch /\ [][NextFetch]_vars

\* C1: a returned table has exactly one column per label of the mapping, in
\* the mapping's insertion order, and its index holds each date of the union
\* of the source series' dates once, and no other date.
C1_ColumnsAndIndex ==
    pc = "returned" =>
        /\ df.columns = [i \in 1..Len(series) |-> series[i][1]]
        /\ Range(df.index) =
              UNION {Range(sources[i].index) : i \in 1..Len(sources)}
        /\ Cardinality(Range(df.index)) = Len(df.index)

C1_Witness ==
    /\ pc = "returned"
    /\ Len(series) = 2
    /\ Range(sources[1].index) \ Range(sources[2].index) # {}
    /\ Range(sources[2].index) \ Range(sources[1].index) # {}

\* C2: in a returned table every column is defined on the whole index, a cell
\* holds the source series' observation at its date when the source has the
\* date and the marker when it has not, and every source date is a row.
C2_Cells ==
    pc = "returned" =>
        \A i \in 1..Len(series) :
            LET label == series[i][1]
                src   == sources[i]
            IN  /\ DOMAIN df.val[label] = Range(df.index)
                /\ Range(src.index) \subseteq Range(df.index)
                /\ \A d \in Range(df.index) :
                      df.val[label][d] =
                          IF d \in Range(src.index)
                          THEN src.val[series[i][2]][d] ELSE NaN

C2_Witness ==
    /\ pc = "returned"
    /\ Len(series) = 2
    /\ \E d \in Range(df.index) :
          /\ d \notin Range(sources[1].index)
          /\ IsNa(df.val[series[1][1]][d])
          /\ df.val[series[2][1]][d] = Num(2)

\* the requests made so far are those of the first entries of the mapping, one
\* request per entry, in order
OneRequestPerEntry ==
    /\ Len(requests) <= Len(series)
    /\ \A i \in 1..Len(requests) : requests[i] = series[i][2]

\* after a failed request: the failed one is the last request made and no
\* table has been returned
FailureEndsFetch ==
    pc = "raised_provider" =>
        /\ df = NoTable
        /\ Len(requests) = Len(frames) + 1

\* a table is returned only from the frames of all entries
NoPartialTable ==
    pc = "returned" => Len(frames) = Len(series) /\ Len(requests) = Len(series)

\* C3 (amended): a failed provider request ends the call with the error: each
\* entry of the mapping is requested at most once (an identifier two labels
\* map to is requested once per label), nothing is requested after the failed
\* request, and no table, merged or partial, is returned.
C3_FailurePropagates ==
    /\ [](OneRequestPerEntry /\ FailureEndsFetch /\ NoPartialTable)
    /\ [][pc # "raised_provider"]_vars

C3_Witness ==
    /\ pc = "raised_provider"
    /\ Len(series) = 2
    /\ Len(requests) = 1

\* C3 as stated: in a failed call each series identifier has been requested at
\* most once.
C3_IdentifierRequestedOnce ==
    pc = "raised_provider" =>
        /\ \A i, j \in 1..Len(requests) : requests[i] = requests[j] => i = j
        /\ df = NoTable

---------------------------------------------------------------------------
(* summarize_timeseries *)

\* Series.first_valid_index(): the first date of the index with a present
\* value, None when there is none
FirstValidIndex(t, c) ==
    LET ok == {i \in 1..Len(t.index) : ~IsNa(t.val[c][t.index[i]])}
    IN  IF ok = {} THEN None
        ELSE <<t.index[CHOOSE i \in ok : \A j \in ok : i <= j]>>

\* Series.last_valid_index()
LastValidIndex(t, c) ==
    LET ok == {i \in 1..Len(t.index) : ~IsNa(t.val[c][t.index[i]])}
    IN  IF ok = {} THEN None
        ELSE <<t.index[CHOOSE i \in ok : \A j \in ok : i >= j]>>

\* the share of missing cells over the present ones (isna().sum() / count())
MissingPctOverPresent(t, c) ==
    LET col == Column(t, c)
        k   == Len(col) - Len(DropNa(col))
    IN  IF Len(col) = k THEN NaN ELSE RMul(Div(k, Len(col) - k), Num(100))

\* line 51: df.isna().mean() * 100; the mean of no rows is NaN
MissingPct(t, c) ==
    LET col  == Column(t, c)
        isna == [i \in 1..Len(col) |-> IF IsNa(col[i]) THEN Num(1) ELSE Num(0)]
        m    == RMean(isna)
    IN  IF IsNa(m) THEN NaN ELSE RMul(m, Num(100))

RECURSIVE RMin(_)
RMin(s) ==
    IF s = <<>> THEN NaN
    ELSE LET r == RMin(Tail(s))
         IN  IF IsNa(r) \/ RLess(Head(s), r) THEN Head(s) ELSE r

RECURSIVE RMax(_)
RMax(s) ==
    IF s = <<>> THEN NaN
    ELSE LET r == RMax(Tail(s))
         IN  IF IsNa(r) \/ RLess(r, Head(s)) THEN Head(s) ELSE r

\* line 50: df.describe().T, one row per (numeric) column; of the statistics
\* the count, mean, min and max are carried (std and the quartiles are not
\* rational and nothing below reads them)
Describe(t, c) ==
    LET present == DropNa(Column(t, c))
    IN  [count |-> Len(present), mean |-> RMean(present),
         min |-> RMin(present), max |-> RMax(present)]

\* lines 50-54: the summary, its rows in the order of the table's columns
SummarizeTimeseries(t) ==
    [rows        |-> t.columns,
     describe    |-> [c \in Range(t.columns) |-> Describe(t, c)],
     missing_pct |-> [c \in Range(t.columns) |-> MissingPct(t, c)],
     start_date  |-> [c \in Range(t.columns) |-> FirstValidIndex(t, c)],
     end_date    |-> [c \in Range(t.columns) |-> LastValidIndex(t, c)]]

\* the markers filled in place (df.fillna(0, inplace=True))
FrameAfterFillna(t) ==
    Frame(t.index, t.columns,
          [c \in Range(t.columns) |->
              [d \in Range(t.index) |->
                  IF IsNa(t.val[c][d]) THEN Num(0) ELSE t.val[c][d]]])

\* the argument after the call: lines 50-53 assign into `summary` only
SummarizeFrameAfter(t) == t

\* df is a table of one or two columns over any dates of 1..n
HelperTable(n) ==
    \E D \in SUBSET (1..n), cols \in {<<"a">>, <<"a", "b">>} :
       \E f \in [Range(cols) -> [D -> Cells]] :
          df = Frame(SortedSeq(D), cols, f)

InitSummary ==
    /\ pc = "call"
    /\ HelperTable(MaxRows)
    /\ NoHelper /\ NoFetch /\ NoRun

Summarize ==
    /\ pc = "call"
    /\ ret' = SummarizeTimeseries(df)
    /\ df' = SummarizeFrameAfter(df)
    /\ calls' = calls + 1
    /\ pc' = "summarized"
    /\ UNCHANGED <<fetchArgs, fetchVars, columns, monthly, runVars>>

NextSummary == Summarize

SpecSummary == InitSummary /\ [][NextSummary]_vars

MissingDates(t, c) == {d \in Range(t.index) : IsNa(t.val[c][d])}
PresentDates(t, c) == {d \in Range(t.index) : ~IsNa(t.val[c][d])}

\* the first and last valid dates of every column are the earliest and the
\* latest date with a present value, and absent when there is none
ValidDatesRight ==
    \A c \in Range(df.columns) :
        LET P == PresentDates(df, c)
        IN  IF P = {}
            THEN ret.start_date[c] = None /\ ret.end_date[c] = None
            ELSE /\ ret.start_date[c] = <<CHOOSE d \in P : \A e \in P : d <= e>>
                 /\ ret.end_date[c] = <<CHOOSE d \in P : \A e \in P : d >= e>>

\* C4 (amended): the summary has one row per column; for a table with at least
\* one row missing_pct is (missing entries / rows) x 100, hence exactly 0 for a
\* column with no missing entry, and for a table with no row it is NaN;
\* start_date and end_date are the first and the last date with a present
\* value, both absent for a column of markers only.
C4_Summary ==
    pc = "summarized" =>
        /\ ret.rows = df.columns
        /\ \A c \in Range(df.columns) :
              LET n == Len(df.index)
                  k == Cardinality(MissingDates(df, c))
                  p == ret.missing_pct[c]
              IN  IF n = 0 THEN IsNa(p)
                  ELSE /\ ~IsNa(p)
                       /\ p[1] * n = 100 * k * p[2]
                       /\ k = 0 => p = Num(0)
        /\ ValidDatesRight

C4_Witness ==
    /\ pc = "summarized"
    /\ Len(df.columns) = 2
    /\ Len(df.index) = 3
    /\ Cardinality(MissingDates(df, "a")) = 1
    /\ ret.missing_pct["a"] = <<100, 3>>
    /\ ret.missing_pct["b"] = Num(0)
    /\ PresentDates(df, "b") = Range(df.index)

\* C4 as stated: missing_pct is exactly 0 for every column with no missing
\* entry.
C4_ZeroWhenNoneMissing ==
    pc = "summarized" =>
        /\ ret.rows = df.columns
        /\ \A c \in Range(df.columns) :
              MissingDates(df, c) = {} => ret.missing_pct[c] = Num(0)
        /\ ValidDatesRight

---------------------------------------------------------------------------
(* plot_correlation_heatmap *)

\* the calendar month of a day, months of two days: day 1 is the last day of
\* month 1, days 2 and 3 are month 2, days 4 and 5 month 3, ...
MonthOf(d) == (d + 2) \div 2

\* the rows of a month's bin, in index order
MonthRows(t, c, m) ==
    LET col == Column(t, c)
        in_month == {i \in 1..Len(t.index) : MonthOf(t.index[i]) = m}
    IN  [k \in 1..Cardinality(in_month) |->
            col[CHOOSE i \in in_month :
                    Cardinality({j \in in_month : j <= i}) = k]]

\* resample("M").sum(): the total of the bin
MonthlySum(t, c, m) == RSum(DropNa(MonthRows(t, c, m)))

\* line 73, one bin of resample("M").mean(): the mean of the present values of
\* the bin, NaN for a bin with none
MonthlyMean(t, c, m) == RMean(DropNa(MonthRows(t, c, m)))

\* line 73: df.resample("M").mean(), a row per month from the month of the
\* first date to the month of the last, labelled by the month
Resample(t) ==
    LET n   == Len(t.index)
        idx == IF n = 0 THEN <<>>
               ELSE LET lo == MonthOf(t.index[1])
                        hi == MonthOf(t.index[n])
                    IN  [k \in 1..(hi - lo + 1) |-> lo + k - 1]
    IN  Frame(idx, t.columns,
              [c \in Range(t.columns) |->
                  [m \in Range(idx) |-> MonthlyMean(t, c, m)]])

\* the months at which both columns have a value (pairwise complete rows)
PairRows(t, x, y) ==
    SelectSeq(t.index, LAMBDA m : ~IsNa(t.val[x][m]) /\ ~IsNa(t.val[y][m]))

\* n * sum(u*v) - sum(u) * sum(v) over the pairwise complete rows
CoMoment(t, x, y) ==
    LET rows == PairRows(t, x, y)
        n    == Len(rows)
        u    == [i \in 1..n |-> t.val[x][rows[i]]]
        v    == [i \in 1..n |-> t.val[y][rows[i]]]
        uv   == [i \in 1..n |-> RMul(u[i], v[i])]
    IN  RSub(RMul(Num(n), RSum(uv)), RMul(RSum(u), RSum(v)))

\* its moment over the rows it shares with the other column
Moment(t, x, y) ==
    LET rows == PairRows(t, x, y)
        n    == Len(rows)
        u    == [i \in 1..n |-> t.val[x][rows[i]]]
        uu   == [i \in 1..n |-> RMul(u[i], u[i])]
    IN  RSub(RMul(Num(n), RSum(uu)), RMul(RSum(u), RSum(u)))

Sign(r) == IF r[1] > 0 THEN 1 ELSE IF r[1] < 0 THEN -1 ELSE 0

\* a coefficient r is kept exactly as <<s, n, d>>: r = s * sqrt(n / d), n/d in
\* lowest terms; 1 is <<1, 1, 1>>
Coef(s, sq) == IF s = 0 THEN <<0, 0, 1>> ELSE <<s, sq[1], sq[2]>>

\* DataFrame.cov() in place of corr(): the co-moment, not normalised
Covariance(t, x, y) ==
    LET c == CoMoment(t, x, y)
    IN  IF Len(PairRows(t, x, y)) < 2 THEN NaN ELSE Coef(Sign(c), RMul(c, c))

\* line 74, one entry of DataFrame.corr(): Pearson's r over the pairwise
\* complete rows, NaN when there are none or a variance is zero
Pearson(t, x, y) ==
    LET c  == CoMoment(t, x, y)
        vx == Moment(t, x, y)
        vy == Moment(t, y, x)
        vv == RMul(vx, vy)
    IN  IF vv[1] = 0 THEN NaN
        ELSE Coef(Sign(c), Div(c[1] * c[1] * vv[2], c[2] * c[2] * vv[1]))

\* line 74: monthly.corr(), labelled by the columns on both axes
Corr(t) ==
    [rows |-> t.columns, cols |-> t.columns,
     val  |-> [x \in Range(t.columns) |->
                  [y \in Range(t.columns) |-> Pearson(t, x, y)]]]

\* the argument after the call: resample and corr build new tables
CorrelationFrameAfter(t) == t

InitCorr ==
    /\ pc = "call"
    /\ HelperTable(NumDays)
    /\ NoHelper /\ NoFetch /\ NoRun

\* lines 73-80; the figure is the heatmap of corr
PlotCorrelationHeatmap ==
    /\ pc = "call"
    /\ monthly' = Resample(df)
    /\ ret' = Corr(Resample(df))
    /\ df' = CorrelationFrameAfter(df)
    /\ calls' = calls + 1
    /\ pc' = "plotted"
    /\ UNCHANGED <<fetchArgs, fetchVars, columns, runVars>>

NextCorr == PlotCorrelationHeatmap

SpecCorr == InitCorr /\ [][NextCorr]_vars

---------------------------------------------------------------------------
(* plot_time_series *)

\* line 61: df.plot(ax=ax), one line per column over the index
PlotTimeSeriesFigure(t) ==
    [i \in 1..Len(t.columns) |->
        [label |-> t.columns[i], data |-> Column(t, t.columns[i])]]

\* the argument after the call: lines 60-67 only read df
TimeSeriesFrameAfter(t) == t

PlotTimeSeries ==
    /\ pc = "call"
    /\ ret' = PlotTimeSeriesFigure(df)
    /\ df' = TimeSeriesFrameAfter(df)
    /\ calls' = calls + 1
    /\ pc' = "plotted"
    /\ UNCHANGED <<fetchArgs, fetchVars, columns, monthly, runVars>>

---------------------------------------------------------------------------
(* plot_distribution *)

\* the `columns` argument: None, or <<list>> for an explicit list
RECURSIVE SeqsUpTo(_, _)
SeqsUpTo(S, n) ==
    IF n = 0 THEN {<<>>}
    ELSE LET shorter == SeqsUpTo(S, n - 1)
         IN  shorter \cup {Append(q, x) : q \in shorter, x \in S}

Selections(t) == {None} \cup {<<sel>> : sel \in SeqsUpTo(Range(t.columns), MaxSel)}

\* line 86
SelectedCols(t, arg) == IF arg = None THEN t.columns ELSE arg[1]

\* line 87, plt.subplots(n, 1) for n >= 1: an array of n axes, but the one
\* Axes object itself, not an array, when n = 1
Subplots(n) == [is_array |-> n # 1, axes |-> [i \in 1..n |-> i]]

\* without lines 88-89
WrapNever(axes, cols) == axes

\* lines 88-89: the single Axes is put in a list
WrapSingle(axes, cols) ==
    IF Len(cols) = 1 THEN [is_array |-> TRUE, axes |-> axes.axes] ELSE axes

\* line 87 raises ValueError for no row of subplots; line 91 raises TypeError
\* when `axes` is not iterable
DistributionRaises(t, arg) ==
    LET cols == SelectedCols(t, arg)
    IN  \/ Len(cols) = 0
        \/ ~WrapSingle(Subplots(Len(cols)), cols).is_array

\* lines 91-93: the figure's subplots from top to bottom, the i-th drawn from
\* the i-th pair of zip(axes, cols)
PlotDistributionFigure(t, arg) ==
    LET cols == SelectedCols(t, arg)
        axes == WrapSingle(Subplots(Len(cols)), cols).axes
        zipped == IF Len(axes) <= Len(cols) THEN Len(axes) ELSE Len(cols)
    IN  [i \in 1..Len(axes) |->
            IF i <= zipped
            THEN [column |-> cols[i], data |-> DropNa(Column(t, cols[i]))]
            ELSE [column |-> "", data |-> <<>>]]

\* the argument after the call: df[col].dropna() builds a new series
DistributionFrameAfter(t) == t

PlotDistribution ==
    /\ pc = "call"
    /\ \E arg \in Selections(df) :
          /\ columns' = arg
          /\ IF DistributionRaises(df, arg)
             THEN pc' = "raised" /\ ret' = <<>>
             ELSE pc' = "plotted" /\ ret' = PlotDistributionFigure(df, arg)
    /\ df' = DistributionFrameAfter(df)
    /\ calls' = calls + 1
    /\ UNCHANGED <<fetchArgs, fetchVars, monthly, runVars>>

InitDist ==
    /\ pc = "call"
    /\ HelperTable(MaxDate)
    /\ NoHelper /\ NoFetch /\ NoRun

NextDist == PlotDistribution

SpecDist == InitDist /\ [][NextDist]_vars

---------------------------------------------------------------------------
(* the helpers called in any order on one table *)

InitOps ==
    /\ pc = "call"
    /\ HelperTable(MaxDate)
    /\ NoHelper /\ NoFetch /\ NoRun

\* the caller goes on to its next call, also after an exception it caught
NextCall ==
    /\ pc \in {"summarized", "plotted", "raised"}
    /\ calls < MaxCalls
    /\ pc' = "call"
    /\ UNCHANGED <<fetchArgs, fetchVars, df, helperVars, runVars>>

NextOps ==
    \/ Summarize
    \/ PlotTimeSeries
    \/ PlotCorrelationHeatmap
    \/ PlotDistribution
    \/ NextCall

SpecOps == InitOps /\ [][NextOps]_vars

---------------------------------------------------------------------------
(* run_quick_eda *)

\* lines 101-106
FredSeries ==
    <<<<"cpi", "CPIAUCSL">>, <<"unemployment_rate", "UNRATE">>,
      <<"fed_funds_rate", "FEDFUNDS">>, <<"sp500", "SP500">>>>

\* line 118
DistributionColumns == <<"cpi", "unemployment_rate", "fed_funds_rate">>

SummaryPath == "data/processed/summary.csv"
TimeSeriesPath == "figures/time_series.png"
CorrelationPath == "figures/correlation.png"
DistributionsPath == "figures/distributions.png"

Paths == {SummaryPath, TimeSeriesPath, CorrelationPath, DistributionsPath}

Untouched == [state |-> "untouched", content |-> <<>>]
Partial == [state |-> "partial", content |-> <<>>]
Written(x) == [state |-> "written", content |-> x]

\* the workflow is run on the first day of its range: start and today are
\* date 1, so each series holds at most that one observation
InitRun ==
    /\ pc = "run_begin"
    /\ today = 1
    /\ series = <<>> /\ start = 1 /\ end = None
    /\ frames = <<>> /\ sources = <<>> /\ requests = <<>>
    /\ df = NoTable
    /\ NoHelper
    /\ files = [p \in Paths |-> Untouched]
    /\ log = <<>>
    /\ printed = FALSE

\* lines 101-108: the call fetch_fred_series(fred_series, start="2010-01-01")
RunFetch ==
    /\ pc = "run_begin"
    /\ series' = FredSeries
    /\ start' = 1
    /\ end' = None
    /\ log' = <<<<"fetch", "called">>>>
    /\ pc' = "fetch_begin"
    /\ UNCHANGED <<today, frames, sources, requests, df, helperVars, files,
                   printed>>

\* a call that raises ends the run: nothing in run_quick_eda catches it
Raise(step) ==
    /\ log' = Append(log, <<step, "raised">>)
    /\ pc' = "aborted"

Return(step, next) ==
    /\ log' = Append(log, <<step, "ok">>)
    /\ pc' = next

\* line 109
RunSummarize ==
    /\ pc = "returned"
    /\ \/ /\ Raise("summarize")
          /\ UNCHANGED <<ret, df>>
       \/ /\ Return("summarize", "write_summary")
          /\ ret' = SummarizeTimeseries(df)
          /\ df' = SummarizeFrameAfter(df)
    /\ UNCHANGED <<fetchArgs, fetchVars, columns, calls, monthly, files, printed>>

\* a write that raises leaves its file as it was or incomplete
WriteRaises(path) ==
    \/ files' = files
    \/ files' = [files EXCEPT ![path] = Partial]

\* the error is swallowed and the run goes on (except: pass)
RunWriteSummarySwallowed ==
    /\ pc = "write_summary"
    /\ \/ /\ log' = Append(log, <<"write_summary", "raised">>)
          /\ pc' = "plot_time_series"
          /\ WriteRaises(SummaryPath)
       \/ /\ Return("write_summary", "plot_time_series")
          /\ files' = [files EXCEPT ![SummaryPath] = Written(ret)]
    /\ UNCHANGED <<fetchArgs, fetchVars, df, helperVars, printed>>

\* line 110: summary.to_csv("data/processed/summary.csv")
RunWriteSummary ==
    /\ pc = "write_summary"
    /\ \/ /\ Raise("write_summary")
          /\ WriteRaises(SummaryPath)
       \/ /\ Return("write_summary", "plot_time_series")
          /\ files' = [files EXCEPT ![SummaryPath] = Written(ret)]
    /\ UNCHANGED <<fetchArgs, fetchVars, df, helperVars, printed>>

\* the error is swallowed and the run goes on with the charts that are left
RunPlotTimeSeriesSkipped ==
    /\ pc = "plot_time_series"
    /\ \/ /\ log' = Append(log, <<"plot_time_series", "raised">>)
          /\ pc' = "plot_correlation"
          /\ UNCHANGED <<ret, df>>
       \/ /\ Return("plot_time_series", "save_time_series")
          /\ ret' = PlotTimeSeriesFigure(df)
          /\ df' = TimeSeriesFrameAfter(df)
    /\ UNCHANGED <<fetchArgs, fetchVars, columns, calls, monthly, files, printed>>

\* line 112
RunPlotTimeSeries ==
    /\ pc = "plot_time_series"
    /\ \/ /\ Raise("plot_time_series")
          /\ UNCHANGED <<ret, df>>
       \/ /\ Return("plot_time_series", "save_time_series")
          /\ ret' = PlotTimeSeriesFigure(df)
          /\ df' = TimeSeriesFrameAfter(df)
    /\ UNCHANGED <<fetchArgs, fetchVars, columns, calls, monthly, files, printed>>

\* line 113: fig1.savefig("figures/time_series.png", dpi=200)
RunSaveTimeSeries ==
    /\ pc = "save_time_series"
    /\ \/ /\ Raise("save_time_series")
          /\ WriteRaises(TimeSeriesPath)
       \/ /\ Return("save_time_series", "plot_correlation")
          /\ files' = [files EXCEPT ![TimeSeriesPath] = Written(ret)]
    /\ UNCHANGED <<fetchArgs, fetchVars, df, helperVars, printed>>

\* line 115
RunPlotCorrelation ==
    /\ pc = "plot_correlation"
    /\ \/ /\ Raise("plot_correlation")
          /\ UNCHANGED <<monthly, ret, df>>
       \/ /\ Return("plot_correlation", "save_correlation")
          /\ monthly' = Resample(df)
          /\ ret' = Corr(Resample(df))
          /\ df' = CorrelationFrameAfter(df)
    /\ UNCHANGED <<fetchArgs, fetchVars, columns, calls, files, printed>>

\* line 116: fig2.savefig("figures/correlation.png", dpi=200)
RunSaveCorrelation ==
    /\ pc = "save_correlation"
    /\ \/ /\ Raise("save_correlation")
          /\ WriteRaises(CorrelationPath)
       \/ /\ Return("save_correlation", "plot_distribution")
          /\ files' = [files EXCEPT ![CorrelationPath] = Written(ret)]
    /\ UNCHANGED <<fetchArgs, fetchVars, df, helperVars, printed>>

\* line 118: plot_distribution(df, columns=[...three of the four labels...])
RunPlotDistribution ==
    /\ pc = "plot_distribution"
    /\ columns' = <<DistributionColumns>>
    /\ \/ /\ Raise("plot_distribution")
          /\ UNCHANGED <<ret, df>>
       \/ /\ ~DistributionRaises(df, <<DistributionColumns>>)
          /\ Return("plot_distribution", "save_distribution")
          /\ ret' = PlotDistributionFigure(df, <<DistributionColumns>>)
          /\ df' = DistributionFrameAfter(df)
    /\ UNCHANGED <<fetchArgs, fetchVars, calls, monthly, files, printed>>

\* line 119: fig3.savefig("figures/distributions.png", dpi=200)
RunSaveDistribution ==
    /\ pc = "save_distribution"
    /\ \/ /\ Raise("save_distribution")
          /\ WriteRaises(DistributionsPath)
       \/ /\ Return("save_distribution", "print")
          /\ files' = [files EXCEPT ![DistributionsPath] = Written(ret)]
    /\ UNCHANGED <<fetchArgs, fetchVars, df, helperVars, printed>>

\* line 121
RunPrint ==
    /\ pc = "print"
    /\ printed' = TRUE
    /\ Return("print", "done")
    /\ UNCHANGED <<fetchArgs, fetchVars, df, helperVars, files>>

NextRun ==
    \/ RunFetch
    \/ FetchBegin
    \/ FetchRequestOk
    \/ FetchRequestFail
    \/ FetchConcat
    \/ RunSummarize
    \/ RunWriteSummary
    \/ RunPlotTimeSeries
    \/ RunSaveTimeSeries
    \/ RunPlotCorrelation
    \/ RunSaveCorrelation
    \/ RunPlotDistribution
    \/ RunSaveDistribution
    \/ RunPrint

SpecRun == InitRun /\ [][NextRun]_vars

---------------------------------------------------------------------------
(* Claims about the helpers *)

RECURSIVE TotalOver(_, _, _)
\* the total of the observations of column c at the dates P
TotalOver(t, c, P) ==
    IF P = {} THEN 0
    ELSE LET d == CHOOSE e \in P : TRUE
         IN  t.val[c][d][1] + TotalOver(t, c, P \ {d})

\* C7: the monthly table has the table's columns and one row for every month
\* from the first date's to the last date's; each cell is the arithmetic mean
\* of the column's present observations dated in that month (NaN for a month
\* with none), so two observations in a month give their mean.
C7_MonthlyMean ==
    pc = "plotted" =>
        /\ monthly.columns = df.columns
        /\ Cardinality(Range(monthly.index)) = Len(monthly.index)
        /\ \A d \in Range(df.index) : MonthOf(d) \in Range(monthly.index)
        /\ \A m \in Range(monthly.index) :
              \E d, e \in Range(df.index) : MonthOf(d) <= m /\ m <= MonthOf(e)
        /\ \A c \in Range(df.columns), m \in Range(monthly.index) :
              LET P == {d \in PresentDates(df, c) : MonthOf(d) = m}
                  v == monthly.val[c][m]
              IN  IF P = {} THEN IsNa(v)
                  ELSE /\ ~IsNa(v)
                       /\ v[1] * Cardinality(P) = v[2] * TotalOver(df, c, P)

C7_Witness ==
    /\ pc = "plotted"
    /\ df.index = <<1, 2, 3, 4>>
    /\ df.val["a"][2] = Num(1)
    /\ df.val["a"][3] = Num(2)
    /\ monthly.val["a"][2] = <<3, 2>>
    /\ Len(monthly.index) = 3

\* every column has two monthly values that differ
NonDegenerate(t) ==
    \A c \in Range(t.columns) :
        \E m, n \in Range(t.index) :
            /\ ~IsNa(t.val[c][m]) /\ ~IsNa(t.val[c][n])
            /\ t.val[c][m] # t.val[c][n]

\* C8: for a non-degenerate table the correlation matrix has one row and one
\* column per table column, is symmetric, and has 1 on its diagonal.
C8_CorrelationMatrix ==
    (pc = "plotted" /\ NonDegenerate(monthly)) =>
        /\ ret.rows = df.columns
        /\ ret.cols = df.columns
        /\ \A x, y \in Range(df.columns) : ret.val[x][y] = ret.val[y][x]
        /\ \A x \in Range(df.columns) : ret.val[x][x] = <<1, 1, 1>>

\* two columns, neither a multiple of the other: 0 < |r| < 1
C8_Witness ==
    /\ pc = "plotted"
    /\ NonDegenerate(monthly)
    /\ Len(df.columns) = 2
    /\ ~IsNa(ret.val["a"]["b"])
    /\ ret.val["a"]["b"][1] = -1
    /\ ret.val["a"]["b"][2] < ret.val["a"]["b"][3]

\* the present cells of a column, in date order
PresentCells(t, c) ==
    LET ds == SortedSeq(PresentDates(t, c))
    IN  [k \in 1..Len(ds) |-> t.val[c][ds[k]]]

\* the figure has one subplot per requested column, in the requested order,
\* each showing its column without the markers
OneSubplotPerColumn(cols) ==
    /\ pc = "plotted"
    /\ Len(ret) = Len(cols)
    /\ \A i \in 1..Len(cols) :
          /\ ret[i].column = cols[i]
          /\ ret[i].data = PresentCells(df, cols[i])

Requested == IF columns = None THEN df.columns ELSE columns[1]

\* C9 (amended): for a selection of one or more columns, and for the default
\* of all columns, the figure has exactly one subplot per requested column, in
\* the requested order, each showing its column without the markers; an empty
\* selection raises and gives no figure.
C9_Subplots ==
    pc # "call" =>
        IF Len(Requested) >= 1
        THEN OneSubplotPerColumn(Requested)
        ELSE pc = "raised"

C9_Witness ==
    /\ pc = "plotted"
    /\ columns = <<(<<"b">>)>>
    /\ Len(df.columns) = 2
    /\ Len(ret) = 1
    /\ MissingDates(df, "b") # {}
    /\ PresentDates(df, "b") # {}

\* C9 as stated: one subplot per requested column for every selection length.
C9_EverySelectionLength ==
    pc # "call" => OneSubplotPerColumn(Requested)

\* C10: no helper call changes the table: its index, columns and cells are
\* the same after the call as before it.
C10_TableReadOnly == [][df' = df]_vars

C10_Witness ==
    /\ calls = MaxCalls
    /\ pc = "summarized"
    /\ monthly # NoTable
    /\ columns # None
    /\ \E c \in Range(df.columns) : MissingDates(df, c) # {}

---------------------------------------------------------------------------
(* Claims about run_quick_eda *)

\* the steps of the workflow in the order of the source lines
RunOrder ==
    <<"fetch", "summarize", "write_summary", "plot_time_series",
      "save_time_series", "plot_correlation", "save_correlation",
      "plot_distribution", "save_distribution", "print">>

\* the position in RunOrder of the step that writes a path
WriteStep(path) == CHOOSE i \in 1..Len(RunOrder) :
    RunOrder[i] = CASE path = SummaryPath -> "write_summary"
                    [] path = TimeSeriesPath -> "save_time_series"
                    [] path = CorrelationPath -> "save_correlation"
                    [] path = DistributionsPath -> "save_distribution"

FetchFailed == pc \in {"raised_provider", "raised_concat"}

\* some step of the run has raised
RunFailed == FetchFailed \/ \E i \in 1..Len(log) : log[i][2] = "raised"

\* the position of the first step that raised
FailedStep ==
    IF FetchFailed THEN 1
    ELSE CHOOSE i \in 1..Len(log) :
            /\ log[i][2] = "raised"
            /\ \A j \in 1..(i - 1) : log[j][2] # "raised"

Artifact(p) ==
    CASE p = SummaryPath -> SummarizeTimeseries(df)
      [] p = TimeSeriesPath -> PlotTimeSeriesFigure(df)
      [] p = CorrelationPath -> Corr(Resample(df))
      [] p = DistributionsPath ->
            PlotDistributionFigure(df, <<DistributionColumns>>)

\* C6: the steps run in the order fetch, summarize, time-series plot,
\* correlation plot, distribution plot, each artifact written to its path
\* right after it is made; a step starts only when every earlier step has
\* completed, so nothing runs after a failing step; the message is printed
\* only when all four files have been written.
C6_StepOrder ==
    /\ Len(log) <= Len(RunOrder)
    /\ \A i \in 1..Len(log) : log[i][1] = RunOrder[i]
    /\ \A i \in 1..(Len(log) - 1) : log[i][2] # "raised"
    /\ FetchFailed => Len(log) = 1
    /\ pc \in {"fetch_begin", "fetch_loop"} => Len(log) = 1
    /\ \A p \in Paths :
          /\ files[p].state = "written" =>
                /\ Len(log) >= WriteStep(p)
                /\ log[WriteStep(p)][2] = "ok"
                /\ files[p].content = Artifact(p)
          /\ files[p].state = "partial" =>
                /\ Len(log) = WriteStep(p)
                /\ log[WriteStep(p)][2] = "raised"
    /\ printed =>
          /\ \A p \in Paths : files[p].state = "written"
          /\ ~RunFailed

C6_Witness ==
    /\ printed
    /\ pc = "done"
    /\ Len(log) = Len(RunOrder)
    /\ \A p \in Paths : files[p].state = "written"
    /\ \E c \in Range(df.columns) : MissingDates(df, c) # {}

====
